---- MODULE Spec2Model ----
(***************************************************************************)
(* A model of the trx utilities of STL-Extension:                          *)
(*   trx/felix/type_traits.h : tlx_and, detail_trx::tlx_and_impl           *)
(*   trx/felix/algorithm.h   : best_if, max_among, max_among_trunc,        *)
(*                             sort(container), sort(container, comp),     *)
(*                             detail_trx::sort_impl                       *)
(* Every utility is a function template; one call of it is one "program".  *)
(* best_if is modelled statement by statement (its loop is the subject of  *)
(* several properties); the other calls are single steps.                  *)
(***************************************************************************)
EXTENDS Integers, Sequences, FiniteSets

VARIABLES
  op,         \* the function the program calls ("none" before any call)
  pc,         \* "idle" | "loop" | "done" | "fault" | "ill_formed"
  range,      \* best_if: the elements of [first, last)
  up,         \* best_if: the unary predicate
  bp,         \* best_if: the binary predicate
  first,      \* best_if: the scanning iterator, as a position 1..Len(range)+1
  best,       \* best_if: the iterator to the best element so far
  bpCalls,    \* best_if: the pairs of positions bp was applied to (*first, *best)
  args,       \* max_among, max_among_trunc: first, rest...
  vals,       \* tlx_and: the template arguments
  kind,       \* sort: the container template
  container,  \* sort: the elements of the container
  before,     \* sort: the elements of the container when sort was entered
  comp,       \* sort(container, comp): the comparison function object
  result      \* the value the call returned

vars == <<op, pc, range, up, bp, first, best, bpCalls, args, vals, kind,
          container, before, comp, result>>

\* ------------------------------------------------------------------ bounds
MaxLen == 3      \* best_if: longest range
MaxVal == 3      \* best_if: elements are 1..MaxVal
MaxArgs == 3     \* max_among, max_among_trunc: most arguments
MaxInt == 1      \* numeric arguments are -MaxInt..MaxInt (doubles up to MaxInt+0.7)
MaxKey == 2      \* struct elements: keys 1..MaxKey
MaxTag == 2      \* struct elements: tags 1..MaxTag tell equivalent elements apart
MaxSize == 3     \* sort: largest container
MaxVals == 3     \* tlx_and: most template arguments

\* ------------------------------------------------------------------ values
\* A value of a C++ type: ty is the type, v what operator< compares. An int
\* holds v; a double holds v tenths; an E is a struct {key; tag;} whose
\* operator< compares the keys only, so elements with equal v and different
\* tags are equivalent and distinguishable.
IntVals == {[ty |-> "int", v |-> n, tag |-> 0] : n \in (0 - MaxInt)..MaxInt}
DoubleVals ==
  {[ty |-> "double", v |-> s * (10 * i + f), tag |-> 0] :
      s \in {0 - 1, 1}, i \in 0..MaxInt, f \in {0, 7}}
EVals == {[ty |-> "E", v |-> k, tag |-> t] : k \in 1..MaxKey, t \in 1..MaxTag}
NoValue == [ty |-> "void", v |-> 0, tag |-> 0]

SeqsUpTo(S, n) == UNION {[1..m -> S] : m \in 0..n}

\* operator< of the element type
Less(a, b) == a.v < b.v

\* ------------------------------------------------------------- type_traits.h
\* detail_trx::tlx_and_impl: overload resolution picks the body by the number
\* of template arguments (the enable_if conditions are sizeof...(vals)==0 and
\* sizeof...(vals)>=1 after the head).
\* Variant: the reduction joins its arguments with || instead of &&.
tlx_and_impl_or(s) == \E i \in 1..Len(s) : s[i]
RECURSIVE tlx_and_impl(_)
tlx_and_impl(s) ==
  IF Len(s) = 0 THEN TRUE
  ELSE IF Len(s) = 1 THEN s[1]
  ELSE s[1] /\ tlx_and_impl(Tail(s))

tlx_and(s) == tlx_and_impl(s)

\* ---------------------------------------------------------------- best_if
UnaryPredicates == {"odd", "even", "any"}
BinaryPredicates == {"greater", "less"}

ApplyUp(u, x) ==
  CASE u = "odd" -> x % 2 = 1
    [] u = "even" -> x % 2 = 0
    [] OTHER -> TRUE

ApplyBp(b, x, y) == IF b = "greater" THEN x > y ELSE x < y

last == Len(range) + 1

\* What a read of *last may yield: the range's storage ends before last, so
\* the read is undefined; it yields whatever the storage after the range
\* holds, or faults.
Memory == 0..(MaxVal + 1)

CallBestIf ==
  /\ pc = "idle"
  /\ \E s \in SeqsUpTo(1..MaxVal, MaxLen), u \in UnaryPredicates,
        b \in BinaryPredicates :
       /\ range' = s
       /\ up' = u
       /\ bp' = b
       /\ best' = Len(s) + 1
  /\ first' = 1
  /\ op' = "best_if"
  /\ pc' = "loop"
  /\ UNCHANGED <<bpCalls, args, vals, kind, container, before, comp, result>>

\* One iteration of `for (; first!=last; ++first)`:
\*   if (up(*first) && (first==last || bp(*first, *best))) best = first;
\* first==last is false inside the loop, so bp is evaluated whenever up holds.
BestIfStep ==
  /\ op = "best_if" /\ pc = "loop"
  /\ first # last
  /\ IF ~ApplyUp(up, range[first])
     THEN \* up(*first) is false: && short-circuits
          /\ first' = first + 1
          /\ UNCHANGED <<best, bpCalls, pc>>
     ELSE IF first = last
     THEN \* first==last is true: || short-circuits
          /\ best' = first
          /\ first' = first + 1
          /\ UNCHANGED <<bpCalls, pc>>
     ELSE \* bp(*first, *best) is evaluated
          /\ bpCalls' = bpCalls \cup {<<first, best>>}
          /\ IF best # last
             THEN /\ best' = IF ApplyBp(bp, range[first], range[best])
                             THEN first ELSE best
                  /\ first' = first + 1
                  /\ UNCHANGED pc
             ELSE \* *best reads *last
                  \/ /\ \E g \in Memory :
                          best' = IF ApplyBp(bp, range[first], g)
                                  THEN first ELSE best
                     /\ first' = first + 1
                     /\ UNCHANGED pc
                  \/ /\ pc' = "fault"
                     /\ UNCHANGED <<first, best>>
  /\ UNCHANGED <<op, range, up, bp, args, vals, kind, container, before, comp,
                 result>>

\* `return best;`
BestIfReturn ==
  /\ op = "best_if" /\ pc = "loop"
  /\ first = last
  /\ result' = best
  /\ pc' = "done"
  /\ UNCHANGED <<op, range, up, bp, first, best, bpCalls, args, vals, kind,
                 container, before, comp>>

\* ------------------------------------------------- max_among, max_among_trunc
\* std::max_element(first, last): `if (*largest < *first) largest = first`,
\* from the second element on; the position of the first largest element.
RECURSIVE max_element_from(_, _, _)
max_element_from(s, i, largest) ==
  IF i > Len(s) THEN largest
  ELSE max_element_from(s, i + 1, IF Less(s[largest], s[i]) THEN i ELSE largest)

\* Variant: `if (!(*first < *largest))`, the last of the largest elements.
max_element_last(s) ==
  CHOOSE i \in 1..Len(s) :
    /\ \A j \in 1..Len(s) : ~Less(s[i], s[j])
    /\ \A j \in (i + 1)..Len(s) : Less(s[j], s[i])

max_element(s) == max_element_from(s, 2, 1)

\* std::is_same<Arg, Args>::value... for the rest of the pack
is_same_pack(a) == [i \in 1..(Len(a) - 1) |-> a[1].ty = a[i + 1].ty]

\* max_among(first, rest...): the static_assert, the array of
\* reference_wrappers to the arguments in their order, and the copy of
\* *std::max_element. A call whose static_assert fails is ill-formed.
max_among(a) ==
  IF Len(a) - 1 = 0 \/ tlx_and(is_same_pack(a))
  THEN [pc |-> "done", value |-> a[max_element(a)]]
  ELSE [pc |-> "ill_formed", value |-> NoValue]

\* static_cast<Arg>(x) between the arithmetic types: double to int discards
\* the fractional part (truncation toward zero); int to double is exact.
\* Variant: double to int rounds to the nearest integer.
static_cast_round(ty, x) ==
  IF x.ty = ty THEN x
  ELSE IF ty = "int"
  THEN [ty |-> "int", v |-> (x.v + 5) \div 10, tag |-> 0]
  ELSE [ty |-> "double", v |-> 10 * x.v, tag |-> 0]

static_cast(ty, x) ==
  IF x.ty = ty THEN x
  ELSE IF ty = "int"
  THEN [ty |-> "int",
        v |-> IF x.v >= 0 THEN x.v \div 10 ELSE 0 - ((0 - x.v) \div 10),
        tag |-> 0]
  ELSE [ty |-> "double", v |-> 10 * x.v, tag |-> 0]

\* max_among_trunc(first, rest...): max_among(first, static_cast<Arg>(rest)...)
max_among_trunc(a) ==
  max_among([i \in 1..Len(a) |->
               IF i = 1 THEN a[1] ELSE static_cast(a[1].ty, a[i])])

CallMaxAmong ==
  /\ pc = "idle"
  /\ \E a \in SeqsUpTo(IntVals \cup EVals, MaxArgs) :
       /\ Len(a) >= 1
       /\ args' = a
       /\ pc' = max_among(a).pc
       /\ result' = max_among(a).value
  /\ op' = "max_among"
  /\ UNCHANGED <<range, up, bp, first, best, bpCalls, vals, kind, container,
                 before, comp>>

CallMaxAmongTrunc ==
  /\ pc = "idle"
  /\ \E a \in SeqsUpTo(IntVals \cup DoubleVals, MaxArgs) :
       /\ Len(a) >= 1
       /\ args' = a
       /\ pc' = max_among_trunc(a).pc
       /\ result' = max_among_trunc(a).value
  /\ op' = "max_among_trunc"
  /\ UNCHANGED <<range, up, bp, first, best, bpCalls, vals, kind, container,
                 before, comp>>

\* tlx_and<vals...>()
CallTlxAnd ==
  /\ pc = "idle"
  /\ \E s \in SeqsUpTo(BOOLEAN, MaxVals) :
       /\ vals' = s
       /\ result' = tlx_and(s)
  /\ op' = "tlx_and"
  /\ pc' = "done"
  /\ UNCHANGED <<range, up, bp, first, best, bpCalls, args, kind, container,
                 before, comp>>

\* --------------------------------------------------------------------- sort
Kinds == {"list", "forward_list", "vector", "deque", "array"}
Comparators == {"less", "greater"}

\* comp(a, b); "less" is the operator< the one-argument algorithms use
ApplyComp(c, a, b) == IF c = "less" THEN Less(a, b) ELSE Less(b, a)

IsSortedBy(s, c) == \A i \in 1..(Len(s) - 1) : ~ApplyComp(c, s[i + 1], s[i])

\* Variant: of two equivalent heads the one of the right run goes first.
RECURSIVE MergeRightFirst(_, _, _)
MergeRightFirst(a, b, c) ==
  IF a = <<>> THEN b
  ELSE IF b = <<>> THEN a
  ELSE IF ApplyComp(c, Head(a), Head(b))
       THEN <<Head(a)>> \o MergeRightFirst(Tail(a), b, c)
       ELSE <<Head(b)>> \o MergeRightFirst(a, Tail(b), c)

\* std::list::merge / std::forward_list::merge, as list::sort uses it: of two
\* equivalent heads the one of the left run goes first.
RECURSIVE Merge(_, _, _)
Merge(a, b, c) ==
  IF a = <<>> THEN b
  ELSE IF b = <<>> THEN a
  ELSE IF ApplyComp(c, Head(b), Head(a))
       THEN <<Head(b)>> \o Merge(a, Tail(b), c)
       ELSE <<Head(a)>> \o Merge(Tail(a), b, c)

\* Variant: a sort that keeps one of several equal elements.
RECURSIVE ListSortUnique(_, _)
ListSortUnique(s, c) ==
  IF Len(s) <= 1 THEN s
  ELSE LET rest == ListSortUnique(Tail(s), c)
       IN IF \E i \in 1..Len(rest) : rest[i] = Head(s)
          THEN rest
          ELSE Merge(<<Head(s)>>, rest, c)

\* container.sort() of std::list and std::forward_list: a merge sort
RECURSIVE ListSort(_, _)
ListSort(s, c) ==
  IF Len(s) <= 1 THEN s
  ELSE LET h == Len(s) \div 2
       IN Merge(ListSort(SubSeq(s, 1, h), c),
                ListSort(SubSeq(s, h + 1, Len(s)), c), c)

Permutations(s) ==
  {[i \in 1..Len(s) |-> s[f[i]]] :
     f \in {g \in [1..Len(s) -> 1..Len(s)] :
              \A i, j \in 1..Len(s) : g[i] = g[j] => i = j}}

\* Variant: std::sort with the comparison's arguments swapped.
StdSortReversed(s, c) ==
  {p \in Permutations(s) :
     IsSortedBy(p, IF c = "less" THEN "greater" ELSE "less")}

\* std::sort(begin, end): sorts the range; the order of equivalent elements
\* is not specified, so every sorted arrangement of the elements is an outcome
\* (libstdc++'s introsort keeps equivalent elements in place up to 16
\* elements and permutes them beyond).
StdSort(s, c) == {p \in Permutations(s) : IsSortedBy(p, c)}

\* The overloads of detail_trx::sort_impl: the containers each accepts, the
\* number of function arguments it takes, and the algorithm it runs.
SortImplOverloads ==
  { [accepts |-> {"list", "forward_list"}, arity |-> 1, algorithm |-> "member_sort"],
    [accepts |-> {"vector", "deque"},      arity |-> 1, algorithm |-> "std_sort"],
    [accepts |-> {"array"},                arity |-> 1, algorithm |-> "std_sort"] }

\* Overload resolution of a call detail_trx::sort_impl(arguments...)
Viable(k, nargs) ==
  {o \in SortImplOverloads : k \in o.accepts /\ o.arity = nargs}

\* What the selected overload may leave in the container
sort_impl(o, s, c) ==
  IF o.algorithm = "member_sort" THEN {ListSort(s, c)} ELSE StdSort(s, c)

\* The body of either sort: the call of sort_impl with nargs arguments. With
\* no viable overload the instantiation is ill-formed and nothing runs.
SortBody(nargs, c) ==
  /\ before' = container
  /\ IF Viable(kind, nargs) = {}
     THEN /\ pc' = "ill_formed"
          /\ UNCHANGED container
     ELSE /\ pc' = "done"
          /\ \E o \in Viable(kind, nargs) : container' \in sort_impl(o, container, c)

\* A container of one of the standard templates, with its elements
Construct ==
  /\ pc = "idle"
  /\ \E k \in Kinds, s \in SeqsUpTo(EVals, MaxSize) :
       /\ kind' = k
       /\ container' = s
  /\ op' = "construct"
  /\ pc' = "done"
  /\ UNCHANGED <<range, up, bp, first, best, bpCalls, args, vals, before, comp,
                 result>>

\* sort(container): detail_trx::sort_impl(container)
CallSort ==
  /\ op \in {"construct", "sort"} /\ pc = "done"
  /\ SortBody(1, "less")
  /\ op' = "sort"
  /\ UNCHANGED <<range, up, bp, first, best, bpCalls, args, vals, kind, comp,
                 result>>

\* sort(container, comp): detail_trx::sort_impl(container, comp)
CallSortComp ==
  /\ op \in {"construct", "sort"} /\ pc = "done"
  /\ \E c \in Comparators :
       /\ comp' = c
       /\ SortBody(2, c)
  /\ op' = "sort_comp"
  /\ UNCHANGED <<range, up, bp, first, best, bpCalls, args, vals, kind, result>>

\* ------------------------------------------------------------------ program
Init ==
  /\ op = "none"
  /\ pc = "idle"
  /\ range = <<>>
  /\ up = "any"
  /\ bp = "greater"
  /\ first = 1
  /\ best = 1
  /\ bpCalls = {}
  /\ args = <<>>
  /\ vals = <<>>
  /\ kind = "none"
  /\ container = <<>>
  /\ before = <<>>
  /\ comp = "less"
  /\ result = NoValue

\* The program ends; the next one starts from scratch.
Exit ==
  /\ pc \in {"done", "fault", "ill_formed"}
  /\ op' = "none"
  /\ pc' = "idle"
  /\ range' = <<>>
  /\ up' = "any"
  /\ bp' = "greater"
  /\ first' = 1
  /\ best' = 1
  /\ bpCalls' = {}
  /\ args' = <<>>
  /\ vals' = <<>>
  /\ kind' = "none"
  /\ container' = <<>>
  /\ before' = <<>>
  /\ comp' = "less"
  /\ result' = NoValue

Next ==
  \/ CallBestIf
  \/ BestIfStep
  \/ BestIfReturn
  \/ CallMaxAmong
  \/ CallMaxAmongTrunc
  \/ CallTlxAnd
  \/ Construct
  \/ CallSort
  \/ CallSortComp
  \/ Exit

Spec == Init /\ [][Next]_vars

\* ============================================================== properties
Qualifying == {i \in 1..Len(range) : ApplyUp(up, range[i])}
Returned == op = "best_if" /\ pc = "done"

Count(e, s) == Cardinality({i \in 1..Len(s) : s[i] = e})
Elements(s) == {s[i] : i \in 1..Len(s)}
SameMultiset(s, t) ==
  \A e \in Elements(s) \cup Elements(t) : Count(e, s) = Count(e, t)
Sorted == op = "sort" /\ pc = "done"
NodeBased == {"list", "forward_list"}
RandomAccess == {"vector", "deque", "array"}

\* C1: best_if returns last if and only if no element of the range satisfies
\* the predicate; when some element qualifies the result is a position inside
\* the range.
BestIfLastIffNoneQualifies ==
  Returned =>
    /\ (result = last) <=> (Qualifying = {})
    /\ Qualifying # {} => result \in 1..Len(range)

\* C2: when some element qualifies, the returned element qualifies, no
\* qualifying element is better than it, and it is at or before every
\* qualifying element it ties with.
BestIfLeftmostBest ==
  (Returned /\ Qualifying # {}) =>
    /\ result \in Qualifying
    /\ \A j \in Qualifying :
         /\ ~ApplyBp(bp, range[j], range[result])
         /\ ~ApplyBp(bp, range[result], range[j]) => result <= j

\* C10: the comparator is only ever applied to two elements inside
\* [first, last): the first qualifying element is accepted without consulting
\* it, and last is never dereferenced.
BestIfNeverDereferencesLast ==
  op = "best_if" =>
    \A c \in bpCalls : c[1] \in 1..Len(range) /\ c[2] \in 1..Len(range)

\* C3: for same-typed arguments max_among returns an argument that no other
\* argument exceeds under operator<, the leftmost of the equal-maximum ones
\* (every argument before it is strictly less); the arguments, taken by
\* reference to const, are the ones the call was given.
MaxAmongLeftmostMax ==
  (op = "max_among" /\ \A i \in 1..Len(args) : args[i].ty = args[1].ty) =>
    /\ pc = "done"
    /\ \E i \in 1..Len(args) :
         /\ result = args[i]
         /\ \A j \in 1..Len(args) : ~Less(args[i], args[j])
         /\ \A j \in 1..(i - 1) : Less(args[j], args[i])

MaxAmongLeftmostMaxWitness ==
  /\ op = "max_among" /\ pc = "done"
  /\ Len(args) = 3
  /\ args[1].v < args[2].v
  /\ args[2].v = args[3].v /\ args[2].tag # args[3].tag
  /\ result = args[2]

\* y is x converted to the type ty: x itself when it has the type; the
\* integer nearest to x between x and zero for a double; ten tenths per unit
\* for an int.
Abs(n) == IF n < 0 THEN 0 - n ELSE n
IsConversion(ty, x, y) ==
  /\ y.ty = ty /\ y.tag = x.tag
  /\ x.ty = ty => y.v = x.v
  /\ (x.ty = "double" /\ ty = "int") =>
       /\ Abs(10 * y.v) <= Abs(x.v)
       /\ Abs(x.v) - Abs(10 * y.v) < 10
       /\ y.v * x.v >= 0
  /\ (x.ty = "int" /\ ty = "double") => y.v = 10 * x.v

\* C6: max_among_trunc converts every later argument to the type T of the
\* first before comparing: the result has type T, is the first argument or the
\* conversion of a later one, and no argument's conversion exceeds it.
MaxAmongTruncConverts ==
  op = "max_among_trunc" =>
    /\ pc = "done"
    /\ result.ty = args[1].ty
    /\ \E i \in 1..Len(args) : IsConversion(args[1].ty, args[i], result)
    /\ \A j \in 1..Len(args) : \A y \in IntVals \cup DoubleVals :
         IsConversion(args[1].ty, args[j], y) => y.v <= result.v

MaxAmongTruncConvertsWitness ==
  /\ op = "max_among_trunc" /\ pc = "done"
  /\ Len(args) = 3
  /\ args[1] = [ty |-> "int", v |-> 0, tag |-> 0]
  /\ args[2] = [ty |-> "double", v |-> 17, tag |-> 0]
  /\ args[3] = [ty |-> "double", v |-> 7, tag |-> 0]
  /\ result = [ty |-> "int", v |-> 1, tag |-> 0]

\* C4: sort(container) completes for every supported container, leaves the
\* same multiset of elements, and no element compares greater than its
\* successor under operator<.
SortAscendingPermutation ==
  op = "sort" =>
    /\ pc = "done"
    /\ SameMultiset(container, before)
    /\ \A i \in 1..(Len(container) - 1) : ~Less(container[i + 1], container[i])

SortAscendingPermutationWitness ==
  /\ Sorted /\ kind = "deque"
  /\ Len(before) = 3
  /\ Less(before[2], before[1]) /\ Less(before[2], before[3])
  /\ container[1] = before[2]
  /\ container # before

\* C5: sort(container, comp) completes with the same multiset of elements and
\* no adjacent pair that comp orders the other way round.
SortCompSortsByComp ==
  op = "sort_comp" =>
    /\ pc = "done"
    /\ SameMultiset(container, before)
    /\ IsSortedBy(container, comp)

\* C7 as stated: sorting a container that is already sorted leaves the
\* element sequence unchanged, for every container kind.
SortIdempotent ==
  (Sorted /\ IsSortedBy(before, "less")) => container = before

\* C7 amended: sort(container) on a container that is already sorted leaves
\* the sequence unchanged for list and forward_list; for vector, deque and
\* array every position keeps an element equivalent to the one it held, and
\* the sequence is unchanged when no two distinguishable elements of the
\* container compare equivalent.
SortIdempotentUpToEquivalence ==
  (Sorted /\ IsSortedBy(before, "less")) =>
    /\ Len(container) = Len(before)
    /\ kind \in NodeBased => container = before
    /\ kind \in RandomAccess =>
         \A i \in 1..Len(before) :
           ~Less(container[i], before[i]) /\ ~Less(before[i], container[i])
    /\ (\A i, j \in 1..Len(before) :
          before[i].v = before[j].v => before[i] = before[j])
       => container = before

SortIdempotentUpToEquivalenceWitness ==
  /\ Sorted /\ kind = "vector"
  /\ Len(before) = 3
  /\ IsSortedBy(before, "less")
  /\ before[1].v = before[2].v /\ before[1].tag # before[2].tag
  /\ container # before

\* C9: sort on a list or forward_list is stable: elements that compare
\* equivalent keep their order (for every key, the elements with that key
\* appear in the same order before and after).
EquivalentTo(k, s) == SelectSeq(s, LAMBDA e : e.v = k)
ListSortStable ==
  (Sorted /\ kind \in NodeBased) =>
    \A k \in 1..MaxKey : EquivalentTo(k, container) = EquivalentTo(k, before)

ListSortStableWitness ==
  /\ Sorted /\ kind = "forward_list"
  /\ Len(before) = 3
  /\ Less(before[2], before[1])
  /\ before[1].v = before[3].v /\ before[1].tag # before[3].tag
  /\ container = <<before[2], before[1], before[3]>>

\* C8: tlx_and returns true if and only if every argument is true (true for
\* no arguments).
TlxAndIsConjunction ==
  op = "tlx_and" =>
    /\ pc = "done"
    /\ result <=> (\A i \in 1..Len(vals) : vals[i])

TlxAndIsConjunctionWitness ==
  /\ op = "tlx_and" /\ pc = "done"
  /\ vals = <<TRUE, TRUE, FALSE>>
  /\ result = FALSE
====
